---- MODULE Spec2Model ----
(***************************************************************************)
(* Model of the Translator-Bot (src/bot.py): the chunking function, the    *)
(* name sanitizer, the text normalizer, the /summary slash command and the *)
(* reaction-based translation handler.                                     *)
(*                                                                         *)
(* A Python str is a sequence of one-character strings, so that len(),     *)
(* join, split, strip and replace are computed character by character.     *)
(***************************************************************************)
EXTENDS Integers, Sequences, FiniteSets, TLC

VARIABLES
    \* chunk_text_blocks applied to an input (SpecChunk)
    c_pc, c_lines, c_max, c_out,
    \* safe_name applied to an input (SpecName)
    n_pc, n_name, n_first, n_out,
    \* one /summary invocation (SpecSummary): the handler's position, its
    \* inputs (the channel's type and 24-hour history), its locals, and the
    \* record of what it did (Generation Client calls, follow-up sends)
    s_pc, s_isText, s_history, s_pos, s_hist, s_deferred, s_messages, s_chunks,
    s_partials, s_calls, s_sends, s_raised,
    \* one reaction event (SpecReaction): the handler's position, the payload
    \* and what the platform holds for it, and the record of what it did
    r_pc, r_payload, r_env, r_calls, r_replies, r_raised

chunkVars == << c_pc, c_lines, c_max, c_out >>
nameVars == << n_pc, n_name, n_first, n_out >>
summaryVars == << s_pc, s_isText, s_history, s_pos, s_hist, s_deferred, s_messages,
                  s_chunks, s_partials, s_calls, s_sends, s_raised >>
reactionVars == << r_pc, r_payload, r_env, r_calls, r_replies, r_raised >>

vars == << chunkVars, nameVars, summaryVars, reactionVars >>

-----------------------------------------------------------------------------
(* Bounds of the model *)

\* longest input line given to chunk_text_blocks
MaxLineLen == 2
\* most input lines given to chunk_text_blocks
MaxLines == 3
\* largest character budget given to chunk_text_blocks
MaxBudget == 4
\* longest display name given to safe_name
MaxNameLen == 3
\* most messages in the 24-hour history of the channel
MaxHist == 2

-----------------------------------------------------------------------------
(* Python str and list operations *)

NL == "\n"

\* the zero-width space U+200B
ZWSP == "u200b"

\* sep.join(strs)
RECURSIVE Join(_, _)
Join(strs, sep) ==
    IF strs = << >> THEN << >>
    ELSE IF Len(strs) = 1 THEN strs[1]
    ELSE strs[1] \o << sep >> \o Join(Tail(strs), sep)

\* s.split(sep) for a one-character sep: never empty, "" gives [""]
RECURSIVE SplitFrom(_, _, _)
SplitFrom(s, sep, cur) ==
    IF s = << >> THEN << cur >>
    ELSE IF s[1] = sep THEN << cur >> \o SplitFrom(Tail(s), sep, << >>)
    ELSE SplitFrom(Tail(s), sep, Append(cur, s[1]))

Split(s, sep) == SplitFrom(s, sep, << >>)

\* whether old occurs in s at position i
MatchAt(s, old, i) ==
    /\ i + Len(old) - 1 <= Len(s)
    /\ \A k \in 1..Len(old) : s[i + k - 1] = old[k]

\* s.replace(old, new), old non-empty: left to right, non-overlapping
RECURSIVE ReplaceFrom(_, _, _, _)
ReplaceFrom(s, old, new, i) ==
    IF i > Len(s) THEN << >>
    ELSE IF MatchAt(s, old, i) THEN new \o ReplaceFrom(s, old, new, i + Len(old))
    ELSE << s[i] >> \o ReplaceFrom(s, old, new, i + 1)

Replace(s, old, new) == ReplaceFrom(s, old, new, 1)

\* all sequences over S of length at most n
SeqsUpTo(S, n) == UNION { [1..k -> S] : k \in 0..n }

-----------------------------------------------------------------------------
(* chunk_text_blocks, src/bot.py:126-147 *)

\* the loop variables before the first iteration (lines 131-133)
ChunkStart == [chunks |-> << >>, current |-> << >>, current_len |-> 0]

\* mutation: the line that does not fit is not carried into the next chunk
ChunkBodyDropLine(st, line, max_chars) ==
    IF st.current_len + Len(line) + 1 > max_chars /\ st.current # << >>
    THEN [chunks |-> Append(st.chunks, Join(st.current, NL)),
          current |-> << >>,
          current_len |-> 0]
    ELSE [chunks |-> st.chunks,
          current |-> Append(st.current, line),
          current_len |-> st.current_len + Len(line) + 1]

\* mutation: the running length forgets the separator of each line
ChunkBodyNoSep(st, line, max_chars) ==
    IF st.current_len + Len(line) + 1 > max_chars /\ st.current # << >>
    THEN [chunks |-> Append(st.chunks, Join(st.current, NL)),
          current |-> << line >>,
          current_len |-> Len(line)]
    ELSE [chunks |-> st.chunks,
          current |-> Append(st.current, line),
          current_len |-> st.current_len + Len(line)]

\* mutation: a chunk is closed as soon as the budget is reached, not exceeded
ChunkBodyEager(st, line, max_chars) ==
    IF st.current_len + Len(line) + 1 >= max_chars /\ st.current # << >>
    THEN [chunks |-> Append(st.chunks, Join(st.current, NL)),
          current |-> << line >>,
          current_len |-> Len(line) + 1]
    ELSE [chunks |-> st.chunks,
          current |-> Append(st.current, line),
          current_len |-> st.current_len + Len(line) + 1]

\* mutation: the budget test compares the serialized length (no trailing separator)
ChunkBodySerialized(st, line, max_chars) ==
    IF st.current_len + Len(line) > max_chars /\ st.current # << >>
    THEN [chunks |-> Append(st.chunks, Join(st.current, NL)),
          current |-> << line >>,
          current_len |-> Len(line) + 1]
    ELSE [chunks |-> st.chunks,
          current |-> Append(st.current, line),
          current_len |-> st.current_len + Len(line) + 1]

\* one iteration of the for loop (lines 135-142)
ChunkBody(st, line, max_chars) ==
    IF st.current_len + Len(line) + 1 > max_chars /\ st.current # << >>
    THEN [chunks |-> Append(st.chunks, Join(st.current, NL)),
          current |-> << line >>,
          current_len |-> Len(line) + 1]
    ELSE [chunks |-> st.chunks,
          current |-> Append(st.current, line),
          current_len |-> st.current_len + Len(line) + 1]

RECURSIVE ChunkLoop(_, _, _, _)
ChunkLoop(lines, i, max_chars, st) ==
    IF i > Len(lines) THEN st
    ELSE ChunkLoop(lines, i + 1, max_chars, ChunkBody(st, lines[i], max_chars))

chunk_text_blocks(lines, max_chars) ==
    LET st == ChunkLoop(lines, 1, max_chars, ChunkStart)
    IN  IF st.current # << >>
        THEN Append(st.chunks, Join(st.current, NL))
        ELSE st.chunks

\* characters of the input lines: none is the separator
LineChars == {"a", "b"}

InputLines == SeqsUpTo(LineChars, MaxLineLen)

CallChunk ==
    /\ c_pc = "start"
    /\ c_out' = chunk_text_blocks(c_lines, c_max)
    /\ c_pc' = "done"
    /\ UNCHANGED << c_lines, c_max >>
    /\ UNCHANGED << nameVars, summaryVars, reactionVars >>

-----------------------------------------------------------------------------
(* safe_name, src/bot.py:54-65 *)

\* line 63: name.replace("@", "@\u200b")
NamePass1(name) == Replace(name, << "@" >>, << "@", ZWSP >>)

\* mutation: the second substitution is left out
NamePass2Skipped(name) == name

\* line 64: name.replace("<@", "<@\u200b")
NamePass2(name) == Replace(name, << "<", "@" >>, << "<", "@", ZWSP >>)

Unknown == << "U", "n", "k", "n", "o", "w", "n" >>

safe_name(name) ==
    IF name = << >> THEN Unknown
    ELSE NamePass2(NamePass1(name))

NameChars == {"<", "@", ZWSP, "x"}

\* the mention "<@123>"
Mention123 == << "<", "@", "1", "2", "3", ">" >>

CallSafeName ==
    /\ n_pc = "start"
    /\ n_first' = IF n_name = << >> THEN << >> ELSE NamePass1(n_name)
    /\ n_out' = safe_name(n_name)
    /\ n_pc' = "done"
    /\ UNCHANGED n_name
    /\ UNCHANGED << chunkVars, summaryVars, reactionVars >>

-----------------------------------------------------------------------------
(* clean_message_content, src/bot.py:67-73 *)

\* the characters str.strip() and str.split() treat as whitespace
WS == {" ", "\t", NL}

\* index of the first character of s at or after i that is (isWs) or is not
\* whitespace; Len(s) + 1 when there is none
FirstFrom(s, i, isWs) ==
    IF \E j \in i..Len(s) : (s[j] \in WS) = isWs
    THEN CHOOSE j \in i..Len(s) :
            /\ (s[j] \in WS) = isWs
            /\ \A k \in i..(j - 1) : (s[k] \in WS) # isWs
    ELSE Len(s) + 1

\* index of the last character of s that is not whitespace; 0 when none
\* (d counts the whitespace characters at the end of s)
LastNonWs(s) ==
    IF \E j \in 1..Len(s) : s[j] \notin WS
    THEN Len(s) - (CHOOSE d \in 0..(Len(s) - 1) :
                      /\ s[Len(s) - d] \notin WS
                      /\ \A k \in 0..(d - 1) : s[Len(s) - k] \in WS)
    ELSE 0

\* s.strip()
Strip(s) == SubSeq(s, FirstFrom(s, 1, FALSE), LastNonWs(s))

\* s.split(): the maximal runs of non-whitespace characters
RECURSIVE SplitWsFrom(_, _)
SplitWsFrom(s, i) ==
    LET lo == FirstFrom(s, i, FALSE)
        hi == FirstFrom(s, lo, TRUE)
    IN  IF lo > Len(s) THEN << >>
        ELSE << SubSeq(s, lo, hi - 1) >> \o SplitWsFrom(s, hi)

SplitWs(s) == SplitWsFrom(s, 1)

clean_message_content(content) == Join(SplitWs(Strip(content)), " ")

-----------------------------------------------------------------------------
(* Prompt Builder and Generation Client, src/bot.py:75-124 *)

\* the slang glossary loaded at start (line 52); {} when slang.json is absent
SLANG == "{}"

\* A prompt is the template it is rendered from and the values of its holes.
Prompt(template, body, i, n, lang, glossary) ==
    [template |-> template, body |-> body, i |-> i, n |-> n, lang |-> lang,
     glossary |-> glossary]

build_translation_prompt(text, target_language) ==
    Prompt("translate", text, 0, 0, target_language, SLANG)

build_summary_prompt(formatted_chat) ==
    Prompt("summary", formatted_chat, 0, 0, "", SLANG)

\* lines 239-245
map_prompt(ch, i, n) == Prompt("map", ch, i, n, "", "")

\* lines 250-260
reduce_prompt(reduce_input) == Prompt("reduce", reduce_input, 0, 0, "", "")

\* What generate_content does (line 120): it raises, or returns a response
\* without text, or a response with text.
RespRaise == [kind |-> "raise", text |-> << >>]
RespNoText == [kind |-> "notext", text |-> << >>]
RespText(t) == [kind |-> "text", text |-> t]

\* the responses the backend may give to the k-th call of a handler
BackendResponses(k) ==
    { RespRaise, RespNoText, RespText(<< " ", NL >>),
      RespText(<< " ", "-", " ", "s", ToString(k), NL >>) }

\* line 124: (getattr(resp, "text", "") or "").strip()
gemini_generate(resp) == IF resp.kind = "text" THEN Strip(resp.text) ELSE << >>

-----------------------------------------------------------------------------
(* /summary, src/bot.py:176-272 *)

\* max_chars of the call at line 225
SummaryMaxChars == 12000

\* what an exception prints as in an f-string
ExcText(e) == << "<", e, ">" >>

\* A message to the caller: a fixed text followed by a variable text.
Msg(fixed, arg) == [fixed |-> fixed, arg |-> arg]

MsgNotTextChannel == Msg("This command can only be used in a text channel.", << >>)
MsgForbidden ==
    Msg("I don't have permission to read message history in this channel.", << >>)
MsgFetchError(e) == Msg("Error while fetching messages: ", ExcText(e))
MsgNoMessages == Msg("No messages found in the past 24 hours.", << >>)
MsgCouldNot == Msg("Could not generate summary.", << >>)
MsgGenError(e) == Msg("Error generating summary: ", ExcText(e))

\* lines 232 and 264: final if final else "Could not generate summary."
MsgResult(final) == IF final # << >> THEN Msg("", final) ELSE MsgCouldNot

\* await interaction.followup.send(msg): delivered, or raises undelivered
Send(sends, msg, ok) == Append(sends, [msg |-> msg, ok |-> ok])

\* msg.created_at.strftime("%Y-%m-%d %H:%M UTC") (line 202)
FormatTs(t) == t.date \o << " " >> \o t.hm \o << " ", "U", "T", "C" >>

\* line 203: f"[{ts}] {author_name}: {content}"
FormatLine(ts, author_name, content) ==
    << "[" >> \o ts \o << "]", " " >> \o author_name \o << ":", " " >> \o content

\* mutation: messages that normalize to the empty string are kept
HistoryBodyKeepEmpty(messages, msg) ==
    IF msg.bot THEN messages
    ELSE Append(messages,
                FormatLine(FormatTs(msg.created_at), safe_name(msg.display_name),
                           clean_message_content(msg.content)))

\* the body of the async for loop (lines 194-203)
HistoryBody(messages, msg) ==
    IF msg.bot THEN messages
    ELSE LET content == clean_message_content(msg.content)
         IN  IF content = << >> THEN messages
             ELSE Append(messages,
                         FormatLine(FormatTs(msg.created_at),
                                    safe_name(msg.display_name), content))

\* mutation: the error report also runs when the result was posted
PostResultAlways(sends, final, ok1, ok2) ==
    Send(Send(sends, MsgResult(final), ok1), MsgGenError("SendError"), ok2)

\* lines 231-234 / 263-266 under the except clause of lines 268-272: the
\* result is posted, and if that raises the error is reported
PostResult(sends, final, ok1, ok2) ==
    IF ok1 THEN Send(sends, MsgResult(final), ok1)
    ELSE Send(Send(sends, MsgResult(final), ok1), MsgGenError("SendError"), ok2)

\* mutation: the newest partial summary is put first
AppendPartialFirst(partials, partial) == << partial >> \o partials

\* line 247: partial_summaries.append(partial)
AppendPartial(partials, partial) == Append(partials, partial)

\* The messages a channel history may hold.
Digit(k) == ToString(k)

CreatedAt(k) ==
    [date |-> << "2", "0", "2", "6", "-", "0", "1", "-", "0", "1" >>,
     hm |-> << "1", "0", ":", "0", Digit(k) >>]

LongContent == [j \in 1..(SummaryMaxChars \div 2) |-> "a"]

MsgKinds ==
    { [bot |-> TRUE, display_name |-> << "b", "o", "t" >>, content |-> << "h", "i" >>],
      [bot |-> FALSE, display_name |-> << "a", "l" >>, content |-> << >>],
      [bot |-> FALSE, display_name |-> << "a", "l" >>, content |-> << " ", NL, " " >>],
      [bot |-> FALSE, display_name |-> << "<", "@", "1", ">" >>,
       content |-> << " ", "h", "i", " ", " ", "y", "o", NL >>],
      [bot |-> FALSE, display_name |-> << >>, content |-> LongContent] }

\* oldest first: the k-th message of the history was created k-th
Histories ==
    { [k \in 1..Len(h) |->
          [bot |-> h[k].bot, display_name |-> h[k].display_name,
           content |-> h[k].content, created_at |-> CreatedAt(k)]] :
      h \in SeqsUpTo(MsgKinds, MaxHist) }

\* line 178: await interaction.response.defer(...)
Defer ==
    /\ s_pc = "start"
    /\ \E ok \in BOOLEAN :
          /\ s_deferred' = ok
          /\ s_raised' = ~ok
          /\ s_pc' = IF ok THEN "channel" ELSE "done"
    /\ UNCHANGED << s_isText, s_history, s_pos, s_hist, s_messages, s_chunks,
                    s_partials, s_calls, s_sends >>
    /\ UNCHANGED << chunkVars, nameVars, reactionVars >>

\* lines 181-186
NotTextChannel ==
    /\ s_pc = "channel"
    /\ ~s_isText
    /\ \E ok \in BOOLEAN :
          /\ s_sends' = Send(s_sends, MsgNotTextChannel, ok)
          /\ s_raised' = ~ok
    /\ s_pc' = "done"
    /\ UNCHANGED << s_isText, s_history, s_pos, s_hist, s_deferred, s_messages,
                    s_chunks, s_partials, s_calls >>
    /\ UNCHANGED << chunkVars, nameVars, reactionVars >>

\* lines 193-203: the history yields its next message
HistoryYield ==
    /\ s_pc = "channel"
    /\ s_isText
    /\ s_pos <= Len(s_history)
    /\ s_messages' = HistoryBody(s_messages, s_history[s_pos])
    /\ s_pos' = s_pos + 1
    /\ UNCHANGED << s_pc, s_isText, s_history, s_hist, s_deferred, s_chunks,
                    s_partials, s_calls, s_sends, s_raised >>
    /\ UNCHANGED << chunkVars, nameVars, reactionVars >>

\* lines 205-210: the history raises discord.Forbidden
HistoryForbidden ==
    /\ s_pc = "channel"
    /\ s_isText
    /\ \E ok \in BOOLEAN :
          /\ s_sends' = Send(s_sends, MsgForbidden, ok)
          /\ s_raised' = ~ok
    /\ s_hist' = "forbidden"
    /\ s_pc' = "done"
    /\ UNCHANGED << s_isText, s_history, s_pos, s_deferred, s_messages, s_chunks,
                    s_partials, s_calls >>
    /\ UNCHANGED << chunkVars, nameVars, reactionVars >>

\* lines 211-216: the history raises another exception
HistoryError ==
    /\ s_pc = "channel"
    /\ s_isText
    /\ \E ok \in BOOLEAN :
          /\ s_sends' = Send(s_sends, MsgFetchError("HTTPException"), ok)
          /\ s_raised' = ~ok
    /\ s_hist' = "error"
    /\ s_pc' = "done"
    /\ UNCHANGED << s_isText, s_history, s_pos, s_deferred, s_messages, s_chunks,
                    s_partials, s_calls >>
    /\ UNCHANGED << chunkVars, nameVars, reactionVars >>

\* lines 218-223: the history is exhausted and no message qualified
NoMessagesFound ==
    /\ s_pc = "channel"
    /\ s_isText
    /\ s_pos > Len(s_history)
    /\ s_messages = << >>
    /\ \E ok \in BOOLEAN :
          /\ s_sends' = Send(s_sends, MsgNoMessages, ok)
          /\ s_raised' = ~ok
    /\ s_hist' = "ok"
    /\ s_pc' = "done"
    /\ UNCHANGED << s_isText, s_history, s_pos, s_deferred, s_messages, s_chunks,
                    s_partials, s_calls >>
    /\ UNCHANGED << chunkVars, nameVars, reactionVars >>

\* lines 218-228: the history is exhausted; the lines are chunked
Chunk ==
    /\ s_pc = "channel"
    /\ s_isText
    /\ s_pos > Len(s_history)
    /\ s_messages # << >>
    /\ s_chunks' = chunk_text_blocks(s_messages, SummaryMaxChars)
    /\ s_hist' = "ok"
    /\ s_pc' = IF Len(s_chunks') = 1 THEN "single" ELSE "map"
    /\ UNCHANGED << s_isText, s_history, s_pos, s_deferred, s_messages,
                    s_partials, s_calls, s_sends, s_raised >>
    /\ UNCHANGED << chunkVars, nameVars, reactionVars >>

\* A call whose result is the final summary (the single call of lines 229-235,
\* the reduce call of lines 262-266), with the except clause of lines 268-272.
FinalCall(prompt) ==
    \E resp \in BackendResponses(Len(s_calls) + 1), ok1 \in BOOLEAN, ok2 \in BOOLEAN :
        /\ s_calls' = Append(s_calls, [prompt |-> prompt, resp |-> resp])
        /\ s_sends' = IF resp.kind = "raise"
                      THEN Send(s_sends, MsgGenError("APIError"), ok2)
                      ELSE PostResult(s_sends, gemini_generate(resp), ok1, ok2)
        /\ s_raised' = ~s_sends'[Len(s_sends')].ok
        /\ s_pc' = "done"

\* lines 228-235
SingleCall ==
    /\ s_pc = "single"
    /\ FinalCall(build_summary_prompt(s_chunks[1]))
    /\ UNCHANGED << s_isText, s_history, s_pos, s_hist, s_deferred, s_messages,
                    s_chunks, s_partials >>
    /\ UNCHANGED << chunkVars, nameVars, reactionVars >>

\* lines 238-247: one iteration of the map loop
MapCall ==
    /\ s_pc = "map"
    /\ LET i == Len(s_partials) + 1
           n == Len(s_chunks)
       IN  \E resp \in BackendResponses(Len(s_calls) + 1), ok \in BOOLEAN :
              /\ s_calls' = Append(s_calls, [prompt |-> map_prompt(s_chunks[i], i, n),
                                             resp |-> resp])
              /\ IF resp.kind = "raise"
                 THEN /\ s_sends' = Send(s_sends, MsgGenError("APIError"), ok)
                      /\ s_raised' = ~ok
                      /\ s_pc' = "done"
                      /\ UNCHANGED s_partials
                 ELSE /\ s_partials' = AppendPartial(s_partials, gemini_generate(resp))
                      /\ s_pc' = IF i = n THEN "reduce" ELSE "map"
                      /\ UNCHANGED << s_sends, s_raised >>
    /\ UNCHANGED << s_isText, s_history, s_pos, s_hist, s_deferred, s_messages,
                    s_chunks >>
    /\ UNCHANGED << chunkVars, nameVars, reactionVars >>

\* lines 249-266
ReduceCall ==
    /\ s_pc = "reduce"
    /\ FinalCall(reduce_prompt(Join(s_partials, NL)))
    /\ UNCHANGED << s_isText, s_history, s_pos, s_hist, s_deferred, s_messages,
                    s_chunks, s_partials >>
    /\ UNCHANGED << chunkVars, nameVars, reactionVars >>

-----------------------------------------------------------------------------
(* Reaction-based translation, src/bot.py:36-41 and 278-328 *)

SUPPORTED_FLAGS ==
    [e \in {"flag_gb", "flag_us", "flag_in", "flag_de"} |->
        CASE e = "flag_gb" -> "English"
          [] e = "flag_us" -> "English"
          [] e = "flag_in" -> "Hindi (Devanagari script)"
          [] e = "flag_de" -> "German"]

\* the emoji a reaction may carry: the four flags and two others
Emojis == DOMAIN SUPPORTED_FLAGS \cup {"flag_fr", "thumbsup"}

\* the messages a reaction may be on
ReactMsgs ==
    { [bot |-> b, content |-> c] :
        b \in BOOLEAN,
        c \in { << >>, << " ", NL >>, << " ", "h", "i", " ", " ", "y", "o", NL >> } }

Payloads == [user_id : {"bot", "alice"}, emoji : Emojis]

\* what the platform holds when the event arrives: the logged-in user
\* (client.user, "none" before login), whether the channel is in the cache,
\* the channel's type, and the message reacted to
Envs ==
    [client_user : {"none", "bot"}, cached : BOOLEAN,
     chan_kind : {"TextChannel", "Thread", "VoiceChannel"}, msg : ReactMsgs]

\* lines 280-283: no logged-in user, or the reaction is the bot's own
OwnReaction(payload, env) ==
    \/ env.client_user = "none"
    \/ payload.user_id = env.client_user

\* line 286
UnsupportedEmoji(emoji_str) == emoji_str \notin DOMAIN SUPPORTED_FLAGS

\* line 298
ChannelOk(kind) == kind \in {"TextChannel", "Thread"}

\* mutation: messages of bots are translated too
BotAuthoredNever(msg) == FALSE

\* line 306
BotAuthored(msg) == msg.bot

\* mutation: an empty translation is posted too
ReplyAlways(translated, ok) == << [msg |-> translated, ok |-> ok] >>

\* lines 316-323: the reply the handler attempts, none for an empty translation
Reply(translated, ok) ==
    IF translated = << >> THEN << >> ELSE << [msg |-> translated, ok |-> ok] >>

\* the awaited operations that sit in a try block whose except clause
\* returns: fetch_channel (293-296), fetch_message (301-304), the Generation
\* Client call and the reply (313-328)
TrySites == {"fetch_channel", "fetch_message", "generate", "reply"}

\* whether a failure (~ok) of the operation at site leaves the handler
Propagates(site, ok) == ~ok /\ site \notin TrySites

\* lines 280-299, up to the first await
ReactionAdd ==
    /\ r_pc = "start"
    /\ r_pc' = IF OwnReaction(r_payload, r_env) THEN "done"
               ELSE IF UnsupportedEmoji(r_payload.emoji) THEN "done"
               ELSE IF ~r_env.cached THEN "fetch_channel"
               ELSE IF ChannelOk(r_env.chan_kind) THEN "fetch_message"
               ELSE "done"
    /\ UNCHANGED << r_payload, r_env, r_calls, r_replies, r_raised >>
    /\ UNCHANGED << chunkVars, nameVars, summaryVars >>

\* lines 293-299: await client.fetch_channel(...), which may raise
FetchChannel ==
    /\ r_pc = "fetch_channel"
    /\ \E ok \in BOOLEAN :
          /\ r_pc' = IF ok /\ ChannelOk(r_env.chan_kind) THEN "fetch_message"
                     ELSE "done"
          /\ r_raised' = Propagates("fetch_channel", ok)
    /\ UNCHANGED << r_payload, r_env, r_calls, r_replies >>
    /\ UNCHANGED << chunkVars, nameVars, summaryVars >>

\* lines 301-311: await channel.fetch_message(...), which may raise
FetchMessage ==
    /\ r_pc = "fetch_message"
    /\ \E ok \in BOOLEAN :
          /\ r_pc' = IF ~ok THEN "done"
                     ELSE IF BotAuthored(r_env.msg) THEN "done"
                     ELSE IF clean_message_content(r_env.msg.content) = << >> THEN "done"
                     ELSE "translate"
          /\ r_raised' = Propagates("fetch_message", ok)
    /\ UNCHANGED << r_payload, r_env, r_calls, r_replies >>
    /\ UNCHANGED << chunkVars, nameVars, summaryVars >>

\* lines 313-328: the Generation Client call and the reply, either of which
\* may raise into the except clauses, which return
Translate ==
    /\ r_pc = "translate"
    /\ \E resp \in BackendResponses(Len(r_calls) + 1), ok \in BOOLEAN :
          /\ r_calls' = Append(r_calls,
                [prompt |-> build_translation_prompt(
                                clean_message_content(r_env.msg.content),
                                SUPPORTED_FLAGS[r_payload.emoji]),
                 resp |-> resp])
          /\ r_replies' = IF resp.kind = "raise" THEN r_replies
                          ELSE r_replies \o Reply(gemini_generate(resp), ok)
          /\ r_raised' = IF resp.kind = "raise"
                         THEN Propagates("generate", FALSE)
                         ELSE r_replies' # r_replies /\ Propagates("reply", ok)
    /\ r_pc' = "done"
    /\ UNCHANGED << r_payload, r_env >>
    /\ UNCHANGED << chunkVars, nameVars, summaryVars >>

-----------------------------------------------------------------------------
(* Properties of chunk_text_blocks (checked under SpecChunk) *)

\* the lines of a chunk: the chunk split on the separator
ChunkLines(chunk) == Split(chunk, NL)

RECURSIVE Flatten(_)
Flatten(ss) == IF ss = << >> THEN << >> ELSE ss[1] \o Flatten(Tail(ss))

\* the lines of all chunks, in order
AllChunkLines(chunks) == Flatten([k \in 1..Len(chunks) |-> ChunkLines(chunks[k])])

\* joining the chunks with the separator and splitting the result again
RoundTrip(chunks) == Split(Join(chunks, NL), NL)

\* sum of the line lengths plus one separator per line
RECURSIVE CountedSize(_)
CountedSize(ls) == IF ls = << >> THEN 0 ELSE Len(ls[1]) + 1 + CountedSize(Tail(ls))

\* C1 as stated: for every input, joining the chunks with the separator and
\* splitting on the separator gives back the input lines.
C1_RoundTripAll ==
    c_pc = "done" => RoundTrip(c_out) = c_lines

\* C1 (amended): the lines of the chunks, taken chunk by chunk in order, are
\* exactly the input lines (nothing dropped, duplicated, split or reordered, so
\* the chunks are contiguous slices of the input); for a non-empty input the
\* join of all chunks splits back into the input; the empty input gives no
\* chunk, and the join of no chunk splits into one empty line, not into [].
C1_RoundTrip ==
    c_pc = "done" =>
        /\ AllChunkLines(c_out) = c_lines
        /\ \A k \in 1..Len(c_out) : ChunkLines(c_out[k]) # << >>
        /\ c_lines # << >> => RoundTrip(c_out) = c_lines
        /\ c_lines = << >> => c_out = << >> /\ RoundTrip(c_out) = << << >> >>

C1_Witness ==
    /\ c_pc = "done"
    /\ Len(c_lines) = MaxLines
    /\ Len(c_out) = 2
    /\ \E k \in 1..Len(c_out) : Len(ChunkLines(c_out[k])) = 2
    /\ c_lines[1] # c_lines[2] /\ c_lines[2] # c_lines[3]

\* C2: every chunk has serialized length at most the budget, or is exactly
\* one line whose own length exceeds the budget.
C2_ChunkWithinBudget ==
    c_pc = "done" =>
        \A k \in 1..Len(c_out) :
            \/ Len(c_out[k]) <= c_max
            \/ /\ Len(ChunkLines(c_out[k])) = 1
               /\ Len(ChunkLines(c_out[k])[1]) > c_max

C2_Witness ==
    /\ c_pc = "done"
    /\ \E k \in 1..Len(c_out) : Len(c_out[k]) > c_max
    /\ \E k \in 1..Len(c_out) : Len(c_out[k]) <= c_max

\* C9 as stated: every chunk has counted size (line lengths plus one separator
\* per line) at most the budget, unless it is a single line whose own length
\* exceeds the budget.
C9_CountedSizeStated ==
    c_pc = "done" =>
        \A k \in 1..Len(c_out) :
            \/ CountedSize(ChunkLines(c_out[k])) <= c_max
            \/ /\ Len(ChunkLines(c_out[k])) = 1
               /\ Len(ChunkLines(c_out[k])[1]) > c_max

\* C9 (amended): every chunk has counted size at most the budget, unless it is
\* a single line whose length plus its separator exceeds the budget, that is a
\* line of length at least the budget: a line of length exactly the budget is
\* a chunk of counted size budget + 1.
C9_CountedSize ==
    c_pc = "done" =>
        \A k \in 1..Len(c_out) :
            \/ CountedSize(ChunkLines(c_out[k])) <= c_max
            \/ /\ Len(ChunkLines(c_out[k])) = 1
               /\ Len(ChunkLines(c_out[k])[1]) >= c_max

C9_Witness ==
    /\ c_pc = "done"
    /\ \E k \in 1..Len(c_out) :
          Len(ChunkLines(c_out[k])) = 1 /\ Len(c_out[k]) = c_max
    /\ \E k \in 1..Len(c_out) :
          Len(ChunkLines(c_out[k])) = 2 /\ CountedSize(ChunkLines(c_out[k])) = c_max

\* the pieces of a partition of the lines, given the set of indices after
\* which it cuts
PieceStarts(cuts) == {1} \cup { c + 1 : c \in cuts }

PieceEnd(n, cuts, a) ==
    CHOOSE e \in cuts \cup {n} : e >= a /\ \A f \in cuts \cup {n} : f >= a => e <= f

Piece(lines, cuts, a) == SubSeq(lines, a, PieceEnd(Len(lines), cuts, a))

\* a chunk the stated rule admits: serialized length within the budget, or a
\* single line longer than the budget
FitsSerialized(piece, max_chars) ==
    \/ Len(Join(piece, NL)) <= max_chars
    \/ Len(piece) = 1 /\ Len(piece[1]) > max_chars

\* a chunk the greedy rule admits: counted size within the budget, or a
\* single line
FitsCounted(piece, max_chars) ==
    \/ CountedSize(piece) <= max_chars
    \/ Len(piece) = 1

\* C8 as stated: no partition into contiguous whole-line chunks, each of
\* serialized length within the budget or a single line longer than the
\* budget, has fewer chunks than the result.
C8_MinimalStated ==
    c_pc = "done" /\ c_lines # << >> =>
        \A cuts \in SUBSET (1..(Len(c_lines) - 1)) :
            (\A a \in PieceStarts(cuts) : FitsSerialized(Piece(c_lines, cuts, a), c_max))
                => Len(c_out) <= Cardinality(cuts) + 1

\* C8 (amended): the result is itself a partition into chunks of counted size
\* (line lengths plus one separator per line) within the budget or of a single
\* line, and no such partition has fewer chunks.
C8_Minimal ==
    c_pc = "done" =>
        /\ \A k \in 1..Len(c_out) : FitsCounted(ChunkLines(c_out[k]), c_max)
        /\ c_lines = << >> => c_out = << >>
        /\ c_lines # << >> =>
            \A cuts \in SUBSET (1..(Len(c_lines) - 1)) :
                (\A a \in PieceStarts(cuts) : FitsCounted(Piece(c_lines, cuts, a), c_max))
                    => Len(c_out) <= Cardinality(cuts) + 1

C8_Witness ==
    /\ c_pc = "done"
    /\ Len(c_lines) = MaxLines
    /\ Len(c_out) = 2
    /\ \E cuts \in SUBSET (1..(Len(c_lines) - 1)) :
          /\ Cardinality(cuts) = 2
          /\ \A a \in PieceStarts(cuts) : FitsCounted(Piece(c_lines, cuts, a), c_max)

-----------------------------------------------------------------------------
(* Properties of safe_name (checked under SpecName) *)

\* whether old occurs somewhere in s
Occurs(s, old) == \E i \in 1..Len(s) : MatchAt(s, old, i)

MentionOpen == << "<", "@" >>

\* every "@" is followed by one separator, and by two when it follows a "<"
TwoPassExpected(name) ==
    Flatten([i \in 1..Len(name) |->
        IF name[i] # "@" THEN << name[i] >>
        ELSE IF i > 1 /\ name[i - 1] = "<" THEN << "@", ZWSP, ZWSP >>
        ELSE << "@", ZWSP >>])

\* C7 as stated: safe_name("<@123>") has one separator after "<@", and for
\* every non-empty name the two passes give what the first pass alone gives.
C7_SecondPassNeverFires ==
    n_pc = "done" /\ n_name # << >> =>
        /\ n_out = n_first
        /\ n_name = Mention123 => n_out = << "<", "@", ZWSP, "1", "2", "3", ">" >>

\* C7 (amended): safe_name("<@123>") has two separators after "<@": the first
\* pass leaves every "<@" in place (followed by a separator), so the second
\* substitution fires on each of them and adds a second separator; the
\* two-pass result equals the first pass alone exactly for the non-empty
\* names that contain no "<@".
C7_SecondPassFires ==
    n_pc = "done" /\ n_name # << >> =>
        /\ n_out = TwoPassExpected(n_name)
        /\ (n_out = n_first) <=> ~Occurs(n_name, MentionOpen)
        /\ n_name = Mention123 =>
              n_out = << "<", "@", ZWSP, ZWSP, "1", "2", "3", ">" >>

C7_Witness ==
    /\ n_pc = "done"
    /\ n_name = Mention123
    /\ n_out # n_first

-----------------------------------------------------------------------------
(* Properties of /summary (checked under SpecSummary) *)

\* what the handler received from the call c
Received(c) == gemini_generate(c.resp)

NoCallFailed(calls) == \A k \in 1..Len(calls) : calls[k].resp.kind # "raise"

\* the follow-up messages that reached the caller
Delivered(sends) == { k \in 1..Len(sends) : sends[k].ok }

\* no message of the history is from a human with non-blank content
NoQualifying(history) ==
    \A k \in 1..Len(history) :
        history[k].bot \/ clean_message_content(history[k].content) = << >>

\* C3: with N > 1 chunks and no failing backend call the handler makes N map
\* calls, the i-th for the i-th chunk and after the (i-1)-th returned, the i-th
\* partial summary being what the i-th call returned, and then one reduce call
\* on the partial summaries joined in order; with N = 1 it makes one call.
C3_MapThenReduce ==
    LET n == Len(s_chunks)
    IN  /\ n = 0 => s_calls = << >>
        /\ \A k \in 1..Len(s_calls) : \A j \in 1..(k - 1) : s_calls[j].resp.kind # "raise"
        /\ n = 1 =>
              /\ Len(s_calls) <= 1
              /\ \A k \in 1..Len(s_calls) :
                    /\ s_calls[k].prompt.template = "summary"
                    /\ s_calls[k].prompt.body = s_chunks[1]
        /\ n > 1 =>
              /\ Len(s_calls) <= n + 1
              /\ \A k \in 1..Len(s_calls) :
                    IF k <= n
                    THEN /\ s_calls[k].prompt.template = "map"
                         /\ s_calls[k].prompt.i = k
                         /\ s_calls[k].prompt.n = n
                         /\ s_calls[k].prompt.body = s_chunks[k]
                    ELSE /\ s_calls[k].prompt.template = "reduce"
                         /\ s_calls[k].prompt.body =
                               Join([j \in 1..n |-> Received(s_calls[j])], NL)
        /\ \A k \in 1..Len(s_partials) : s_partials[k] = Received(s_calls[k])
        /\ s_pc = "done" /\ n >= 1 /\ NoCallFailed(s_calls) =>
              Len(s_calls) = IF n = 1 THEN 1 ELSE n + 1

C3_Witness ==
    /\ s_pc = "done"
    /\ Len(s_chunks) = 2
    /\ Len(s_calls) = 3
    /\ NoCallFailed(s_calls)
    /\ s_partials[1] # s_partials[2]
    /\ s_partials[1] # << >>

\* C4 as stated: every deferred invocation ends with exactly one follow-up
\* message delivered to the caller.
C4_ExactlyOneMessage ==
    s_pc = "done" /\ s_deferred => Cardinality(Delivered(s_sends)) = 1

\* C4 (amended): every deferred invocation attempts a follow-up send and
\* delivers at most one message; a failure of the history or of a backend
\* call is reported by one error message, a failure to post the result by one
\* error message in its place; the caller gets no message exactly when the
\* last send the handler attempts fails, and then the exception leaves the
\* handler.
C4_AtMostOneMessage ==
    s_pc = "done" /\ s_deferred =>
        LET last == s_sends[Len(s_sends)]
        IN  /\ Len(s_sends) \in {1, 2}
            /\ Cardinality(Delivered(s_sends)) <= 1
            /\ \A k \in 1..(Len(s_sends) - 1) : ~s_sends[k].ok
            /\ (Cardinality(Delivered(s_sends)) = 1) <=> last.ok
            /\ s_raised <=> ~last.ok
            /\ s_hist = "forbidden" => s_sends = << [msg |-> MsgForbidden, ok |-> last.ok] >>
            /\ s_hist = "error" =>
                  /\ Len(s_sends) = 1
                  /\ last.msg.fixed = "Error while fetching messages: "
            /\ ~NoCallFailed(s_calls) =>
                  /\ Len(s_sends) = 1
                  /\ last.msg.fixed = "Error generating summary: "
            /\ Len(s_sends) = 2 =>
                  /\ NoCallFailed(s_calls) /\ s_calls # << >>
                  /\ s_sends[1].msg = MsgResult(Received(s_calls[Len(s_calls)]))
                  /\ last.msg.fixed = "Error generating summary: "

C4_Witness ==
    /\ s_pc = "done"
    /\ s_deferred
    /\ Len(s_sends) = 2
    /\ ~s_sends[1].ok
    /\ s_sends[2].ok

\* C6: in a text channel whose history holds no qualifying message the
\* handler makes no Generation Client call, and once the history has been
\* read to its end the one message it sends is "No messages found"; the only
\* other message it can send is the report of a failed retrieval.  (Written
\* as: the conclusion holds, or the channel is no text channel, or some
\* message of the history qualifies.)
C6_NoMessagesFound ==
    \/ /\ s_calls = << >>
       /\ s_chunks = << >>
       /\ Len(s_sends) <= 1
       /\ \A k \in 1..Len(s_sends) :
             IF s_hist = "ok" THEN s_sends[k].msg = MsgNoMessages
             ELSE s_hist \in {"forbidden", "error"} /\ s_sends[k].msg # MsgNoMessages
       /\ s_pc = "done" /\ s_hist = "ok" => Len(s_sends) = 1
    \/ ~s_isText
    \/ ~NoQualifying(s_history)

C6_Witness ==
    /\ s_pc = "done"
    /\ s_isText
    /\ Len(s_history) = 2
    /\ s_history[1].bot /\ ~s_history[2].bot
    /\ s_history[2].content # << >>
    /\ s_sends = << [msg |-> MsgNoMessages, ok |-> TRUE] >>

-----------------------------------------------------------------------------
(* Properties of the reaction handler (checked under SpecReaction) *)

\* C5: no Generation Client call and no reply when the emoji is not one of
\* the four flags, or the reaction is the bot's own, or the message is
\* bot-authored; a call happens only when none of these holds and the
\* normalized text is not empty.
C5_IgnoredReactions ==
    /\ Cardinality(DOMAIN SUPPORTED_FLAGS) = 4
    /\ \/ r_payload.emoji \notin {"flag_gb", "flag_us", "flag_in", "flag_de"}
       \/ r_payload.user_id = "bot"
       \/ r_env.msg.bot
       => r_calls = << >> /\ r_replies = << >>
    /\ r_calls # << >> =>
          /\ r_payload.emoji \in {"flag_gb", "flag_us", "flag_in", "flag_de"}
          /\ r_payload.user_id # "bot"
          /\ ~r_env.msg.bot
          /\ clean_message_content(r_env.msg.content) # << >>
          /\ r_calls[1].prompt.body # << >>

C5_Witness ==
    /\ r_pc = "done"
    /\ r_payload = [user_id |-> "alice", emoji |-> "flag_de"]
    /\ r_env.client_user = "bot"
    /\ r_env.chan_kind = "TextChannel"
    /\ r_env.msg.bot
    /\ r_env.msg.content # << >>
    /\ r_calls = << >>
    /\ r_replies = << >>

\* C10: the handler posts at most one message, and only the non-empty
\* translation the Generation Client returned; it never raises; when the
\* call raises or returns empty text nothing is posted.
C10_SilentFailures ==
    /\ ~r_raised
    /\ Len(r_calls) <= 1
    /\ Len(r_replies) <= 1
    /\ \A k \in 1..Len(r_replies) :
          /\ Len(r_calls) = 1
          /\ r_calls[1].resp.kind = "text"
          /\ r_replies[k].msg = Received(r_calls[1])
          /\ r_replies[k].msg # << >>
          /\ r_replies[k].msg[1] \notin {" ", NL}
          /\ r_replies[k].msg[Len(r_replies[k].msg)] \notin {" ", NL}
    /\ \A k \in 1..Len(r_calls) :
          r_calls[k].resp.kind # "text" \/ Received(r_calls[k]) = << >>
             => r_replies = << >>

C10_Witness ==
    /\ r_pc = "done"
    /\ Len(r_calls) = 1
    /\ r_calls[1].resp = RespText(<< " ", NL >>)
    /\ r_replies = << >>

-----------------------------------------------------------------------------
(* Specifications *)

\* chunk_text_blocks applied once to any bounded input
InitChunk ==
    /\ c_pc = "start"
    /\ c_lines \in SeqsUpTo(InputLines, MaxLines)
    /\ c_max \in 1..MaxBudget
    /\ c_out = << >>
    /\ n_pc = "idle" /\ n_name = << >> /\ n_first = << >> /\ n_out = << >>
    /\ s_pc = "idle" /\ s_isText = FALSE /\ s_history = << >> /\ s_pos = 1
    /\ s_hist = "pending" /\ s_deferred = FALSE /\ s_messages = << >>
    /\ s_chunks = << >> /\ s_partials = << >> /\ s_calls = << >>
    /\ s_sends = << >> /\ s_raised = FALSE
    /\ r_pc = "idle" /\ r_payload = [user_id |-> "bot", emoji |-> "thumbsup"]
    /\ r_env = [client_user |-> "none", cached |-> FALSE, chan_kind |-> "TextChannel",
                msg |-> [bot |-> TRUE, content |-> << >>]]
    /\ r_calls = << >> /\ r_replies = << >> /\ r_raised = FALSE

NextChunk == CallChunk

SpecChunk == InitChunk /\ [][NextChunk]_vars

\* safe_name applied once to any bounded input
InitName ==
    /\ n_pc = "start"
    /\ n_name \in SeqsUpTo(NameChars, MaxNameLen) \cup { Mention123 }
    /\ n_first = << >>
    /\ n_out = << >>
    /\ c_pc = "idle" /\ c_lines = << >> /\ c_max = 1 /\ c_out = << >>
    /\ s_pc = "idle" /\ s_isText = FALSE /\ s_history = << >> /\ s_pos = 1
    /\ s_hist = "pending" /\ s_deferred = FALSE /\ s_messages = << >>
    /\ s_chunks = << >> /\ s_partials = << >> /\ s_calls = << >>
    /\ s_sends = << >> /\ s_raised = FALSE
    /\ r_pc = "idle" /\ r_payload = [user_id |-> "bot", emoji |-> "thumbsup"]
    /\ r_env = [client_user |-> "none", cached |-> FALSE, chan_kind |-> "TextChannel",
                msg |-> [bot |-> TRUE, content |-> << >>]]
    /\ r_calls = << >> /\ r_replies = << >> /\ r_raised = FALSE

NextName == CallSafeName

SpecName == InitName /\ [][NextName]_vars

\* one /summary invocation, in any channel with any bounded history
InitSummary ==
    /\ s_pc = "start"
    /\ s_isText \in BOOLEAN
    /\ s_history \in Histories
    /\ s_pos = 1
    /\ s_hist = "pending" /\ s_deferred = FALSE /\ s_messages = << >>
    /\ s_chunks = << >> /\ s_partials = << >> /\ s_calls = << >>
    /\ s_sends = << >> /\ s_raised = FALSE
    /\ c_pc = "idle" /\ c_lines = << >> /\ c_max = 1 /\ c_out = << >>
    /\ n_pc = "idle" /\ n_name = << >> /\ n_first = << >> /\ n_out = << >>
    /\ r_pc = "idle" /\ r_payload = [user_id |-> "bot", emoji |-> "thumbsup"]
    /\ r_env = [client_user |-> "none", cached |-> FALSE, chan_kind |-> "TextChannel",
                msg |-> [bot |-> TRUE, content |-> << >>]]
    /\ r_calls = << >> /\ r_replies = << >> /\ r_raised = FALSE

NextSummary ==
    \/ Defer
    \/ NotTextChannel
    \/ HistoryYield
    \/ HistoryForbidden
    \/ HistoryError
    \/ NoMessagesFound
    \/ Chunk
    \/ SingleCall
    \/ MapCall
    \/ ReduceCall

SpecSummary == InitSummary /\ [][NextSummary]_vars

\* one reaction event, with any payload on any message
InitReaction ==
    /\ r_pc = "start"
    /\ r_payload \in Payloads
    /\ r_env \in Envs
    /\ r_calls = << >> /\ r_replies = << >> /\ r_raised = FALSE
    /\ c_pc = "idle" /\ c_lines = << >> /\ c_max = 1 /\ c_out = << >>
    /\ n_pc = "idle" /\ n_name = << >> /\ n_first = << >> /\ n_out = << >>
    /\ s_pc = "idle" /\ s_isText = FALSE /\ s_history = << >> /\ s_pos = 1
    /\ s_hist = "pending" /\ s_deferred = FALSE /\ s_messages = << >>
    /\ s_chunks = << >> /\ s_partials = << >> /\ s_calls = << >>
    /\ s_sends = << >> /\ s_raised = FALSE

NextReaction ==
    \/ ReactionAdd
    \/ FetchChannel
    \/ FetchMessage
    \/ Translate

SpecReaction == InitReaction /\ [][NextReaction]_vars

====
